---- MODULE Spec2Model ----
(***************************************************************************)
(* The constraint-system protocol of bellman (src/src/lib.rs) and its      *)
(* reference implementation TestConstraintSystem                           *)
(* (src/src/gadgets/test/mod.rs), as a state machine.                      *)
(*                                                                         *)
(* Strings are sequences of one-character strings, so that compute_path's  *)
(* '/' test and its joining of segments are computed, not assumed.         *)
(* Field elements are the integers modulo Modulus.  Rust's 0-based vector  *)
(* index i is position i + 1 of the TLA+ sequence.                         *)
(***************************************************************************)
EXTENDS Integers, Sequences, FiniteSets, TLC

(***************************************************************************)
(* Bounds of the model.                                                    *)
(***************************************************************************)
MaxObjects == 4      \* number of registered paths, "ONE" included

(***************************************************************************)
(* The scalar field E::Fr, here the integers modulo a small prime.         *)
(***************************************************************************)
Modulus == 7
Fr == 0 .. (Modulus - 1)
zero == 0
one == 1
add_assign(x, y) == (x + y) % Modulus
\* (a variant that adds)
mul_assign_adding(x, y) == (x + y) % Modulus

mul_assign(x, y) == (x * y) % Modulus

\* The witness values the environment passes in.
Vals == {0, 2}

\* The local names the environment passes in; the last one holds a '/'.
Names == { <<"a">>, <<"b">>, <<"a", "/", "b">> }
OnePath == <<"O", "N", "E">>

(***************************************************************************)
(* Index, Variable (lib.rs re-exports them from lc) and NamedObject.       *)
(***************************************************************************)
\* (a variant that numbers an input by the length after the push)
InputAfterPush(i) == [kind |-> "Input", index |-> i + 1]

Input(i) == [kind |-> "Input", index |-> i]
\* (a variant that numbers an aux variable by the length after the push)
AuxAfterPush(i) == [kind |-> "Aux", index |-> i + 1]

Aux(i) == [kind |-> "Aux", index |-> i]
NamedConstraint(i) == [tag |-> "Constraint", index |-> i]
NamedVar(v) == [tag |-> "Var", var |-> v]
NamedNamespace == [tag |-> "Namespace"]

\* ConstraintSystem::one
CSOne == Input(0)

VARIABLES
    named_objects,      \* HashMap<String, NamedObject>: a function on the registered paths
    current_namespace,  \* Vec<String>: the namespace stack
    constraints,        \* Vec<(LC, LC, LC, String)>
    inputs,             \* Vec<(Fr, String)>
    aux,                \* Vec<(Fr, String)>
    guards,             \* the live Namespace guards, outermost first
    panicked,           \* a hard fault (panic) has happened
    last                \* the last call: its arguments, its outcome and what it saw

vars == <<named_objects, current_namespace, constraints, inputs, aux, guards,
          panicked, last>>

(***************************************************************************)
(* compute_path                                                            *)
(***************************************************************************)
\* (a variant that lets every name through)
HasSlashNever(this) == FALSE

HasSlash(this) == \E i \in 1 .. Len(this) : this[i] = "/"

RECURSIVE JoinLoop(_, _, _, _)
\* The loop of compute_path over ns.iter().chain(Some(&this)): segs is the
\* chained sequence, i the position of the iterator.
JoinLoop(segs, i, name, needs_separation) ==
    IF i > Len(segs) THEN name
    ELSE JoinLoop(segs, i + 1,
                  (IF needs_separation THEN name \o <<"/">> ELSE name) \o segs[i],
                  TRUE)

\* A variant of compute_path that chains the local name before the stack.
compute_path_name_first(ns, this) == JoinLoop(<<this>> \o ns, 1, <<>>, FALSE)

compute_path(ns, this) == JoinLoop(ns \o <<this>>, 1, <<>>, FALSE)

(***************************************************************************)
(* eval_lc, which_is_unsatisfied, is_satisfied, get                        *)
(***************************************************************************)
\* A linear combination is the sequence of (variable, coefficient) terms
\* that terms.iter() yields.
Lookup(var, ins, au) ==
    IF var.kind = "Input" THEN ins[var.index + 1][1] ELSE au[var.index + 1][1]

RECURSIVE EvalLoop(_, _, _, _, _)
EvalLoop(terms, i, acc, ins, au) ==
    IF i > Len(terms) THEN acc
    ELSE EvalLoop(terms, i + 1,
                  add_assign(acc, mul_assign(Lookup(terms[i][1], ins, au), terms[i][2])),
                  ins, au)

RECURSIVE SumLoop(_, _, _, _, _)
\* A variant of eval_lc that leaves out tmp.mul_assign(coeff).
SumLoop(terms, i, acc, ins, au) ==
    IF i > Len(terms) THEN acc
    ELSE SumLoop(terms, i + 1, add_assign(acc, Lookup(terms[i][1], ins, au)), ins, au)

eval_lc_unweighted(terms, ins, au) == SumLoop(terms, 1, zero, ins, au)

eval_lc(terms, ins, au) == EvalLoop(terms, 1, zero, ins, au)

\* Option<&str>: None is the empty sequence, Some(path) the sequence holding path.
None == <<>>
Some(path) == <<path>>

RECURSIVE UnsatLoopLast(_, _, _, _)
\* A variant of which_is_unsatisfied's loop that does not return at the first
\* violation and so reports the last one.
UnsatLoopLast(cons, i, ins, au) ==
    IF i > Len(cons) THEN None
    ELSE LET a == eval_lc(cons[i][1], ins, au)
             b == eval_lc(cons[i][2], ins, au)
             c == eval_lc(cons[i][3], ins, au)
             later == UnsatLoopLast(cons, i + 1, ins, au)
         IN IF later # None THEN later
            ELSE IF mul_assign(a, b) # c THEN Some(cons[i][4])
            ELSE None

RECURSIVE UnsatLoop(_, _, _, _)
UnsatLoop(cons, i, ins, au) ==
    IF i > Len(cons) THEN None
    ELSE LET a == eval_lc(cons[i][1], ins, au)
             b == eval_lc(cons[i][2], ins, au)
             c == eval_lc(cons[i][3], ins, au)
         IN IF mul_assign(a, b) # c THEN Some(cons[i][4])
            ELSE UnsatLoop(cons, i + 1, ins, au)

which_is_unsatisfied == UnsatLoop(constraints, 1, inputs, aux)

is_satisfied == which_is_unsatisfied = None

\* The match of get and set on named_objects.get(path).
\* (a variant that resolves nothing)
ResolvesNever(path) == FALSE

Resolves(path) ==
    /\ path \in DOMAIN named_objects
    /\ named_objects[path].tag = "Var"

get(path) == Lookup(named_objects[path].var, inputs, aux)

(***************************************************************************)
(* The record of a call: what was passed, what came back, and the stack,   *)
(* the registry and the tables the call found.                             *)
(***************************************************************************)
Call(op, name, val, out, res, path) ==
    [op |-> op, name |-> name, val |-> val, out |-> out, res |-> res, path |-> path,
     ns |-> current_namespace,
     keys |-> DOMAIN named_objects,
     pre |-> [inputs |-> inputs, aux |-> aux, constraints |-> constraints,
              named_objects |-> named_objects]]

NoArg == "-"

Init ==
    /\ named_objects = [p \in {OnePath} |-> NamedVar(CSOne)]
    /\ current_namespace = <<>>
    /\ constraints = <<>>
    /\ inputs = << <<one, OnePath>> >>
    /\ aux = <<>>
    /\ guards = <<>>
    /\ panicked = FALSE
    /\ last = [op |-> "new", name |-> NoArg, val |-> NoArg, out |-> "ok", res |-> NoArg,
               path |-> <<>>, ns |-> <<>>, keys |-> {},
               pre |-> [inputs |-> <<>>, aux |-> <<>>, constraints |-> <<>>,
                        named_objects |-> <<>>]]

\* The circuit code of the model stops creating objects when the registry
\* holds MaxObjects paths.
Room == Cardinality(DOMAIN named_objects) < MaxObjects

\* A variant of set_named_obj's test that sees only the variables.
contains_key_var(path) ==
    /\ path \in DOMAIN named_objects
    /\ named_objects[path].tag = "Var"

\* set_named_obj's test: self.named_objects.contains_key(&path)
contains_key(path) == path \in DOMAIN named_objects

\* set_named_obj's insert
\* (a variant that forgets the other entries)
InsertAlone(path, to) == [p \in {path} |-> to]

Insert(path, to) ==
    [p \in DOMAIN named_objects \cup {path} |-> IF p = path THEN to ELSE named_objects[p]]

(***************************************************************************)
(* alloc: the value closure f returns Ok(value) or Err(AssignmentMissing). *)
(***************************************************************************)
Ok(value) == [tag |-> "Ok", value |-> value]
AssignmentMissing == [tag |-> "Err"]
Closures == {Ok(v) : v \in Vals} \cup {AssignmentMissing}

\* (a variant that pushes the slot before it looks at what the closure
\* returned)
alloc_pushing_first(annotation, f) ==
    /\ ~panicked
    /\ LET index == Len(aux)
           path == compute_path(current_namespace, annotation)
       IN IF HasSlash(annotation)
          THEN /\ panicked' = TRUE
               /\ last' = Call("alloc", annotation, f, "panic", NoArg, <<>>)
               /\ UNCHANGED <<named_objects, current_namespace, constraints, inputs, aux,
                              guards>>
          ELSE IF f.tag = "Err"
          THEN /\ aux' = Append(aux, <<zero, path>>)
               /\ last' = Call("alloc", annotation, f, "err", NoArg, path)
               /\ UNCHANGED <<named_objects, current_namespace, constraints, inputs,
                              guards, panicked>>
          ELSE /\ aux' = Append(aux, <<f.value, path>>)
               /\ IF contains_key(path)
                  THEN /\ panicked' = TRUE
                       /\ last' = Call("alloc", annotation, f, "panic", NoArg, path)
                       /\ UNCHANGED named_objects
                  ELSE /\ named_objects' = Insert(path, NamedVar(Aux(index)))
                       /\ last' = Call("alloc", annotation, f, "ok", Aux(index), path)
                       /\ UNCHANGED panicked
               /\ UNCHANGED <<current_namespace, constraints, inputs, guards>>

alloc(annotation, f) ==
    /\ ~panicked
    /\ LET index == Len(aux)
           path == compute_path(current_namespace, annotation)
       IN IF HasSlash(annotation)
          THEN /\ panicked' = TRUE
               /\ last' = Call("alloc", annotation, f, "panic", NoArg, <<>>)
               /\ UNCHANGED <<named_objects, current_namespace, constraints, inputs, aux,
                              guards>>
          ELSE IF f.tag = "Err"
          THEN /\ last' = Call("alloc", annotation, f, "err", NoArg, path)
               /\ UNCHANGED <<named_objects, current_namespace, constraints, inputs, aux,
                              guards, panicked>>
          ELSE /\ aux' = Append(aux, <<f.value, path>>)
               /\ IF contains_key(path)
                  THEN /\ panicked' = TRUE
                       /\ last' = Call("alloc", annotation, f, "panic", NoArg, path)
                       /\ UNCHANGED named_objects
                  ELSE /\ named_objects' = Insert(path, NamedVar(Aux(index)))
                       /\ last' = Call("alloc", annotation, f, "ok", Aux(index), path)
                       /\ UNCHANGED panicked
               /\ UNCHANGED <<current_namespace, constraints, inputs, guards>>

(***************************************************************************)
(* alloc_input                                                             *)
(***************************************************************************)
alloc_input(annotation, f) ==
    /\ ~panicked
    /\ LET index == Len(inputs)
           path == compute_path(current_namespace, annotation)
       IN IF HasSlash(annotation)
          THEN /\ panicked' = TRUE
               /\ last' = Call("alloc_input", annotation, f, "panic", NoArg, <<>>)
               /\ UNCHANGED <<named_objects, current_namespace, constraints, inputs, aux,
                              guards>>
          ELSE IF f.tag = "Err"
          THEN /\ last' = Call("alloc_input", annotation, f, "err", NoArg, path)
               /\ UNCHANGED <<named_objects, current_namespace, constraints, inputs, aux,
                              guards, panicked>>
          ELSE /\ inputs' = Append(inputs, <<f.value, path>>)
               /\ IF contains_key(path)
                  THEN /\ panicked' = TRUE
                       /\ last' = Call("alloc_input", annotation, f, "panic", NoArg, path)
                       /\ UNCHANGED named_objects
                  ELSE /\ named_objects' = Insert(path, NamedVar(Input(index)))
                       /\ last' = Call("alloc_input", annotation, f, "ok", Input(index), path)
                       /\ UNCHANGED panicked
               /\ UNCHANGED <<current_namespace, constraints, aux, guards>>

(***************************************************************************)
(* enforce: a, b, c are the combinations the three builder closures return *)
(* from LinearCombination::zero().                                         *)
(***************************************************************************)
enforce(annotation, a, b, c) ==
    /\ ~panicked
    /\ LET path == compute_path(current_namespace, annotation)
           index == Len(constraints)
       IN IF HasSlash(annotation)
          THEN /\ panicked' = TRUE
               /\ last' = Call("enforce", annotation, NoArg, "panic", NoArg, <<>>)
               /\ UNCHANGED <<named_objects, constraints>>
          ELSE IF contains_key(path)
          THEN /\ panicked' = TRUE
               /\ last' = Call("enforce", annotation, NoArg, "panic", NoArg, path)
               /\ UNCHANGED <<named_objects, constraints>>
          ELSE /\ named_objects' = Insert(path, NamedConstraint(index))
               /\ constraints' = Append(constraints, <<a, b, c, path>>)
               /\ last' = Call("enforce", annotation, NoArg, "ok", NoArg, path)
               /\ UNCHANGED panicked
    /\ UNCHANGED <<current_namespace, inputs, aux, guards>>

(***************************************************************************)
(* push_namespace and pop_namespace of the root                            *)
(***************************************************************************)
\* What push_namespace does to the root: the registry, the stack, and whether it panics.
PushFaults(name) ==
    \/ HasSlash(name)
    \/ contains_key(compute_path(current_namespace, name))

PushedObjects(name) == Insert(compute_path(current_namespace, name), NamedNamespace)

PushedStack(name) == Append(current_namespace, name)

\* A variant of the pop that leaves the vector as it is.
PoppedStackKept(ns) == ns

\* Vec::pop: the vector without its last element.
PoppedStack(ns) == SubSeq(ns, 1, Len(ns) - 1)

\* Variants of pop_namespace's assertion: one that is compiled out, one that
\* also fires on the last segment.
PopFaultsNever(ns) == FALSE
PopFaultsOnLast(ns) == Len(ns) <= 1

\* assert!(self.current_namespace.pop().is_some())
PopFaults(ns) == Len(ns) = 0

push_namespace(name) ==
    /\ ~panicked
    /\ IF PushFaults(name)
       THEN /\ panicked' = TRUE
            /\ last' = Call("push_namespace", name, NoArg, "panic", NoArg,
                            IF HasSlash(name) THEN <<>>
                            ELSE compute_path(current_namespace, name))
            /\ UNCHANGED <<named_objects, current_namespace>>
       ELSE /\ named_objects' = PushedObjects(name)
            /\ current_namespace' = PushedStack(name)
            /\ last' = Call("push_namespace", name, NoArg, "ok", NoArg,
                            compute_path(current_namespace, name))
            /\ UNCHANGED panicked
    /\ UNCHANGED <<constraints, inputs, aux, guards>>

pop_namespace ==
    /\ ~panicked
    /\ current_namespace' = PoppedStack(current_namespace)
    /\ panicked' = PopFaults(current_namespace)
    /\ last' = Call("pop_namespace", NoArg, NoArg,
                    IF PopFaults(current_namespace) THEN "panic" ELSE "ok", NoArg, <<>>)
    /\ UNCHANGED <<named_objects, constraints, inputs, aux, guards>>

(***************************************************************************)
(* ConstraintSystem::namespace, the Namespace guard and its Drop           *)
(***************************************************************************)
\* A guard remembers (for the properties only) its name and the stack it was made on.
Guard(name) == [name |-> name, saved |-> current_namespace]

\* namespace(name), on the root or on the innermost guard:
\* self.get_root().push_namespace(name_fn); Namespace(self.get_root(), ..)
namespace(name) ==
    /\ ~panicked
    /\ IF PushFaults(name)
       THEN /\ panicked' = TRUE
            /\ last' = Call("namespace", name, NoArg, "panic", NoArg,
                            IF HasSlash(name) THEN <<>>
                            ELSE compute_path(current_namespace, name))
            /\ UNCHANGED <<named_objects, current_namespace, guards>>
       ELSE /\ named_objects' = PushedObjects(name)
            /\ current_namespace' = PushedStack(name)
            /\ guards' = Append(guards, Guard(name))
            /\ last' = Call("namespace", name, NoArg, "ok", NoArg,
                            compute_path(current_namespace, name))
            /\ UNCHANGED panicked
    /\ UNCHANGED <<constraints, inputs, aux>>

\* Drop for Namespace: self.get_root().pop_namespace().  The innermost guard
\* goes first: it borrows the one below it.  A panic unwinds through the live
\* guards, so drop also runs after one; a panic inside a drop that runs
\* during unwinding aborts the process.
drop ==
    /\ guards # <<>>
    /\ ~(panicked /\ PopFaults(current_namespace))
    /\ guards' = SubSeq(guards, 1, Len(guards) - 1)
    /\ current_namespace' = PoppedStack(current_namespace)
    /\ panicked' = (panicked \/ PopFaults(current_namespace))
    /\ last' = [Call("drop", guards[Len(guards)].name, NoArg,
                     IF PopFaults(current_namespace) THEN "panic" ELSE "ok", NoArg, <<>>)
                EXCEPT !.res = [saved |-> guards[Len(guards)].saved,
                                after |-> last.op, after_out |-> last.out]]
    /\ UNCHANGED <<named_objects, constraints, inputs, aux>>

\* A variant of Namespace::pop_namespace that returns.
NamespacePopReturns == "ok"

\* push_namespace, pop_namespace and get_root called on a guard itself.
NamespacePushOutcome == "panic"
NamespacePopOutcome == "panic"
\* Namespace::get_root is self.0.get_root(): it hands out the root.
NamespaceGetRootOutcome == "ok"

guard_push_namespace(name) ==
    /\ ~panicked
    /\ guards # <<>>
    /\ panicked' = (NamespacePushOutcome = "panic")
    /\ last' = Call("guard.push_namespace", name, NoArg, NamespacePushOutcome, NoArg, <<>>)
    /\ UNCHANGED <<named_objects, current_namespace, constraints, inputs, aux, guards>>

guard_pop_namespace ==
    /\ ~panicked
    /\ guards # <<>>
    /\ panicked' = (NamespacePopOutcome = "panic")
    /\ last' = Call("guard.pop_namespace", NoArg, NoArg, NamespacePopOutcome, NoArg, <<>>)
    /\ UNCHANGED <<named_objects, current_namespace, constraints, inputs, aux, guards>>

guard_get_root ==
    /\ ~panicked
    /\ guards # <<>>
    /\ panicked' = (NamespaceGetRootOutcome = "panic")
    /\ last' = Call("guard.get_root", NoArg, NoArg, NamespaceGetRootOutcome, "root", <<>>)
    /\ UNCHANGED <<named_objects, current_namespace, constraints, inputs, aux, guards>>

(***************************************************************************)
(* set, get and the queries: methods of TestConstraintSystem itself, which *)
(* the exclusive borrow held by a live guard keeps the test from calling.  *)
(***************************************************************************)
\* self.inputs[index].0 = to / self.aux[index].0 = to
\* A variant of set's Input arm that writes every input slot.
SetInputsEvery(v, to) ==
    IF v.kind = "Input"
    THEN [i \in 1 .. Len(inputs) |-> <<to, inputs[i][2]>>]
    ELSE inputs

SetInputs(v, to) ==
    IF v.kind = "Input"
    THEN [inputs EXCEPT ![v.index + 1] = <<to, inputs[v.index + 1][2]>>]
    ELSE inputs

\* A variant of set's Aux arm that writes nothing.
SetAuxNothing(v, to) == aux

SetAux(v, to) ==
    IF v.kind = "Aux"
    THEN [aux EXCEPT ![v.index + 1] = <<to, aux[v.index + 1][2]>>]
    ELSE aux

set(path, to) ==
    /\ ~panicked
    /\ guards = <<>>
    /\ IF Resolves(path)
       THEN /\ inputs' = SetInputs(named_objects[path].var, to)
            /\ aux' = SetAux(named_objects[path].var, to)
            /\ last' = Call("set", path, to, "ok", get(path), path)
            /\ UNCHANGED panicked
       ELSE /\ panicked' = TRUE
            /\ last' = Call("set", path, to, "panic", NoArg, path)
            /\ UNCHANGED <<inputs, aux>>
    /\ UNCHANGED <<named_objects, current_namespace, constraints, guards>>

get_call(path) ==
    /\ ~panicked
    /\ guards = <<>>
    /\ IF Resolves(path)
       THEN /\ last' = Call("get", path, NoArg, "ok", get(path), path)
            /\ UNCHANGED panicked
       ELSE /\ panicked' = TRUE
            /\ last' = Call("get", path, NoArg, "panic", NoArg, path)
    /\ UNCHANGED <<named_objects, current_namespace, constraints, inputs, aux, guards>>

num_constraints == Len(constraints)

is_satisfied_call ==
    /\ ~panicked
    /\ guards = <<>>
    /\ last' = Call("is_satisfied", NoArg, NoArg, "ok", is_satisfied, <<>>)
    /\ UNCHANGED <<named_objects, current_namespace, constraints, inputs, aux, guards,
                   panicked>>

which_is_unsatisfied_call ==
    /\ ~panicked
    /\ guards = <<>>
    /\ last' = Call("which_is_unsatisfied", NoArg, NoArg, "ok", which_is_unsatisfied, <<>>)
    /\ UNCHANGED <<named_objects, current_namespace, constraints, inputs, aux, guards,
                   panicked>>

(***************************************************************************)
(* proc_lc: the canonical form of a combination.  The BTreeMap is the      *)
(* sequence of its (variable, coefficient) entries in key order.           *)
(***************************************************************************)
\* (a variant that puts aux before inputs)
cmp_aux_first(a, b) ==
    IF a.kind = b.kind
    THEN IF a.index < b.index THEN "Less"
         ELSE IF a.index = b.index THEN "Equal" ELSE "Greater"
    ELSE IF a.kind = "Aux" THEN "Less" ELSE "Greater"

\* impl Ord for OrderedVariable: inputs before aux, then by index.
cmp(a, b) ==
    IF a.kind = b.kind
    THEN IF a.index < b.index THEN "Less"
         ELSE IF a.index = b.index THEN "Equal" ELSE "Greater"
    ELSE IF a.kind = "Input" THEN "Less" ELSE "Greater"

\* (a variant of the entry update that overwrites instead of adding)
RECURSIVE EntryOverwrite(_, _, _, _)
EntryOverwrite(map, i, var, coeff) ==
    IF i > Len(map)
    THEN Append(map, <<var, coeff>>)
    ELSE IF cmp(var, map[i][1]) = "Equal"
         THEN [map EXCEPT ![i] = <<var, coeff>>]
         ELSE IF cmp(var, map[i][1]) = "Less"
              THEN SubSeq(map, 1, i - 1) \o << <<var, coeff>> >> \o SubSeq(map, i, Len(map))
              ELSE EntryOverwrite(map, i + 1, var, coeff)

\* map.entry(var).or_insert_with(zero).add_assign(&coeff)
RECURSIVE EntryAddAssign(_, _, _, _)
EntryAddAssign(map, i, var, coeff) ==
    IF i > Len(map)
    THEN Append(map, <<var, add_assign(zero, coeff)>>)
    ELSE IF cmp(var, map[i][1]) = "Equal"
         THEN [map EXCEPT ![i] = <<var, add_assign(map[i][2], coeff)>>]
         ELSE IF cmp(var, map[i][1]) = "Less"
              THEN SubSeq(map, 1, i - 1) \o << <<var, add_assign(zero, coeff)>> >>
                       \o SubSeq(map, i, Len(map))
              ELSE EntryAddAssign(map, i + 1, var, coeff)

\* (a variant that goes through the terms twice)
RECURSIVE ProcLoopOnce(_, _, _)
ProcLoopOnce(terms, i, map) ==
    IF i > Len(terms)
    THEN map
    ELSE ProcLoopOnce(terms, i + 1, EntryAddAssign(map, 1, terms[i][1], terms[i][2]))

ProcLoopTwice(terms, i, map) == ProcLoopOnce(terms \o terms, i, map)

\* for (var, &coeff) in terms.iter() { ... }
RECURSIVE ProcLoop(_, _, _)
ProcLoop(terms, i, map) ==
    IF i > Len(terms)
    THEN map
    ELSE ProcLoop(terms, i + 1, EntryAddAssign(map, 1, terms[i][1], terms[i][2]))

\* (a variant that leaves the zero entries in)
RemoveNothing(map) == map

\* to_remove: the entries whose coefficient is zero are removed.
RemoveZero(map) ==
    LET NotZero(e) == e[2] # zero
    IN SelectSeq(map, NotZero)

\* (a variant that keeps the terms as they come)
proc_lc_raw(terms) == terms

proc_lc(terms) == RemoveZero(ProcLoop(terms, 1, <<>>))

proc_lc_call(terms) ==
    /\ ~panicked
    /\ last' = Call("proc_lc", NoArg, terms, "ok", proc_lc(terms), <<>>)
    /\ UNCHANGED <<named_objects, current_namespace, constraints, inputs, aux, guards,
                   panicked>>

eval_lc_call(terms) ==
    /\ ~panicked
    /\ last' = Call("eval_lc", NoArg, terms, "ok", eval_lc(terms, inputs, aux), <<>>)
    /\ UNCHANGED <<named_objects, current_namespace, constraints, inputs, aux, guards,
                   panicked>>

(***************************************************************************)
(* hash: the bytes fed to the Blake2s state, in order.  The hex string     *)
(* hash() returns is the digest of exactly these bytes, so two systems     *)
(* with the same bytes have the same fingerprint.                          *)
(***************************************************************************)
\* The k-th base-256 digit of n, the least significant being digit 0.
RECURSIVE Digit(_, _)
Digit(n, k) ==
    IF n = 0 THEN 0
    ELSE IF k = 0 THEN n % 256 ELSE Digit(n \div 256, k - 1)

\* BigEndian::write_u64
write_u64(n) == [i \in 1 .. 8 |-> Digit(n, 8 - i)]

\* coeff.to_repr(): 32 bytes, least significant first.
to_repr(coeff) == [i \in 1 .. 32 |-> Digit(coeff, i - 1)]

\* bytes.as_mut().reverse()
reverse(bytes) == [i \in 1 .. Len(bytes) |-> bytes[Len(bytes) + 1 - i]]

\* One entry of the canonical form: tag byte b'I' or b'A', index, coefficient.
EntryBytes(var, coeff) ==
    <<IF var.kind = "Input" THEN 73 ELSE 65>> \o write_u64(var.index) \o reverse(to_repr(coeff))

RECURSIVE HashEntries(_, _)
HashEntries(map, i) ==
    IF i > Len(map)
    THEN <<>>
    ELSE EntryBytes(map[i][1], map[i][2]) \o HashEntries(map, i + 1)

\* (a variant that writes the terms as they come)
hash_lc_terms(terms) == write_u64(Len(terms)) \o HashEntries(terms, 1)

hash_lc(terms) ==
    LET map == proc_lc(terms)
    IN write_u64(Len(map)) \o HashEntries(map, 1)

\* (a variant that also writes the length of the constraint's path)
HashConstraintWithPath(constraint) ==
    write_u64(Len(constraint[4]))
        \o hash_lc(constraint[1]) \o hash_lc(constraint[2]) \o hash_lc(constraint[3])

\* (a variant that leaves the third combination out)
HashConstraintTwo(constraint) == hash_lc(constraint[1]) \o hash_lc(constraint[2])

HashConstraint(constraint) ==
    hash_lc(constraint[1]) \o hash_lc(constraint[2]) \o hash_lc(constraint[3])

RECURSIVE HashConstraints(_, _)
HashConstraints(cons, i) ==
    IF i > Len(cons)
    THEN <<>>
    ELSE HashConstraint(cons[i]) \o HashConstraints(cons, i + 1)

RECURSIVE HashValues(_, _)
HashValues(table, i) ==
    IF i > Len(table)
    THEN <<>>
    ELSE reverse(to_repr(table[i][1])) \o HashValues(table, i + 1)

\* (a variant that also writes the assigned values)
HashOfAssignment(ins, au, cons) ==
    write_u64(Len(ins)) \o write_u64(Len(au)) \o write_u64(Len(cons))
        \o HashConstraints(cons, 1) \o HashValues(ins, 1) \o HashValues(au, 1)

\* hash() of a system with these tables.
HashOf(ins, au, cons) ==
    write_u64(Len(ins)) \o write_u64(Len(au)) \o write_u64(Len(cons))
        \o HashConstraints(cons, 1)

hash == HashOf(inputs, aux, constraints)

hash_call ==
    /\ ~panicked
    /\ guards = <<>>
    /\ last' = Call("hash", NoArg, NoArg, "ok", hash, <<>>)
    /\ UNCHANGED <<named_objects, current_namespace, constraints, inputs, aux, guards,
                   panicked>>

\* verify(expected): the loop over inputs.iter().skip(1).zip(expected), which
\* stops at the shorter of the two and returns false at the first difference.
RECURSIVE VerifyLoop(_, _, _)
VerifyLoop(expected, skip, i) ==
    IF i > Len(expected) \/ skip + i > Len(inputs)
    THEN TRUE
    ELSE IF inputs[skip + i][1] # expected[i]
         THEN FALSE
         ELSE VerifyLoop(expected, skip, i + 1)

\* (a variant that does not skip the first input)
verify_unskipped(expected) == VerifyLoop(expected, 0, 1)

verify(expected) == VerifyLoop(expected, 1, 1)

\* (a variant whose length assertion never fails)
VerifyFaultsNever(expected) == FALSE

\* assert_eq!(expected.len() + 1, self.inputs.len())
VerifyFaults(expected) == Len(expected) + 1 # Len(inputs)

verify_call(expected) ==
    /\ ~panicked
    /\ guards = <<>>
    /\ IF VerifyFaults(expected)
       THEN /\ panicked' = TRUE
            /\ last' = Call("verify", NoArg, expected, "panic", NoArg, <<>>)
       ELSE /\ last' = Call("verify", NoArg, expected, "ok", verify(expected), <<>>)
            /\ UNCHANGED panicked
    /\ UNCHANGED <<named_objects, current_namespace, constraints, inputs, aux, guards>>

(***************************************************************************)
(* The environment: the circuit code and the test that drive the system.   *)
(***************************************************************************)
\* The variables this system has handed out (alloc, alloc_input, one).
Variables ==
    {Input(i) : i \in 0 .. (Len(inputs) - 1)} \cup {Aux(i) : i \in 0 .. (Len(aux) - 1)}

\* The combinations the builder closures return: v * v = v, and the boolean
\* constraint (v - ONE) * v = 0, over the variables handed out.
Triples ==
    {<< << <<v, one>> >>, << <<v, one>> >>, << <<v, one>> >> >> : v \in Variables}
      \cup {<< << <<v, one>>, <<CSOne, Modulus - 1>> >>, << <<v, one>> >>, <<>> >> : v \in Variables}

\* The paths the test addresses: the registered ones and one that is not.
Paths == DOMAIN named_objects \cup {<<"x">>}

\* The test drives the root directly.
Next ==
    \/ Room /\ \E n \in Names, f \in Closures : alloc(n, f)
    \/ Room /\ \E n \in Names, f \in Closures : alloc_input(n, f)
    \/ Room /\ \E n \in Names, t \in Triples : enforce(n, t[1], t[2], t[3])
    \/ Room /\ \E n \in Names : push_namespace(n)
    \/ pop_namespace
    \/ \E p \in Paths, to \in Vals : set(p, to)
    \/ \E p \in Paths : get_call(p)
    \/ is_satisfied_call
    \/ which_is_unsatisfied_call

Spec == Init /\ [][Next]_vars

\* The circuit enters scopes only through namespace(name): every push and
\* pop of the root is a guard's.
NextScoped ==
    \/ Room /\ \E n \in Names, f \in Closures : alloc(n, f)
    \/ Room /\ \E n \in Names, f \in Closures : alloc_input(n, f)
    \/ Room /\ \E n \in Names, t \in Triples : enforce(n, t[1], t[2], t[3])
    \/ Room /\ \E n \in Names : namespace(n)
    \/ drop
    \/ \E n \in Names : guard_push_namespace(n)
    \/ guard_pop_namespace
    \/ guard_get_root
    \/ \E p \in Paths, to \in Vals : set(p, to)
    \/ \E p \in Paths : get_call(p)
    \/ is_satisfied_call
    \/ which_is_unsatisfied_call

SpecScoped == Init /\ [][NextScoped]_vars

\* A test that allocates, assigns and then compares the public inputs with
\* the values it expects.
MaxExpected == 2     \* length of the slice handed to verify

Expecteds == UNION {[1 .. n -> Vals] : n \in 0 .. MaxExpected}

NextVerify ==
    \/ Room /\ \E n \in Names, f \in Closures : alloc(n, f)
    \/ Room /\ \E n \in Names, f \in Closures : alloc_input(n, f)
    \/ \E p \in Paths, to \in Vals : set(p, to)
    \/ \E expected \in Expecteds : verify_call(expected)

SpecVerify == Init /\ [][NextVerify]_vars

\* Circuit code that allocates an input and an auxiliary variable and builds
\* combinations of at most MaxTerms terms over the variables it holds.  The
\* functions are pure, so applying one directly after another shows nothing
\* new: an application follows a construction step.
MaxTerms == 3        \* number of terms of a combination

Coeffs == {zero, one, Modulus - 1}

Terms == Variables \X Coeffs

LCs == UNION {[1 .. n -> Terms] : n \in 0 .. MaxTerms}

Applications == {"proc_lc", "eval_lc"}

NextLC ==
    \/ Room /\ \E f \in Closures : alloc_input(<<"a">>, f)
    \/ Room /\ \E f \in Closures : alloc(<<"b">>, f)
    \/ last.op \notin Applications /\ \E terms \in LCs : proc_lc_call(terms)
    \/ last.op \notin Applications /\ \E terms \in LCs : eval_lc_call(terms)

SpecLC == Init /\ [][NextLC]_vars

\* Circuit code that allocates an input and an auxiliary variable and records
\* up to two constraints, and a test that fingerprints the result.  The combinations
\* are those of Triples and the same written differently: terms in another
\* order, a term whose coefficient is zero, terms that cancel.
HashTriples ==
    Triples
      \cup {<< << <<CSOne, Modulus - 1>>, <<v, one>> >>, << <<v, one>> >>, <<>> >> :
                v \in Variables}
      \cup {<< << <<v, one>>, <<CSOne, zero>> >>, << <<v, one>> >>, << <<v, one>> >> >> :
                v \in Variables}
      \cup {<< << <<v, one>>, <<CSOne, one>>, <<v, Modulus - 1>> >>, << <<v, one>> >>,
               << <<v, one>> >> >> : v \in Variables}

ConstraintNames == { <<"c">>, <<"c", "c">> }

NextHash ==
    \/ Room /\ alloc_input(<<"a">>, Ok(2))
    \/ Room /\ alloc(<<"b">>, Ok(2))
    \/ Room /\ \E n \in ConstraintNames, t \in HashTriples : enforce(n, t[1], t[2], t[3])
    \/ hash_call

SpecHash == Init /\ [][NextHash]_vars

\* test_cs, in program order: each step is taken where the test takes it,
\* told by the call before it and by the number of registered paths.  The
\* values allocated and assigned are any of the test's four numbers, and the
\* test's last three steps may be repeated.
from(n) == n % Modulus

TestNumbers == {10, 4, 40, 16}

TestValues == {from(n) : n \in TestNumbers}

PathVar == <<"v", "a", "r">>

PathProduct == <<"p", "r", "o", "d", "u", "c", "t">>

PathMult == <<"m", "u", "l", "t">>

PathEq == <<"e", "q">>

Registered == Cardinality(DOMAIN named_objects)

TermOf(v) == << <<v, one>> >>

NextTest ==
    \/ last.op \in {"new", "enforce"} /\ is_satisfied_call
    \/ last.op = "is_satisfied" /\ Registered = 1 /\ namespace(<<"a">>)
    \/ last.op = "namespace" /\ \E v \in TestValues : alloc(PathVar, Ok(v))
    \/ last.op = "alloc" /\ guards # <<>> /\ drop
    \/ last.op = "drop" /\ Registered = 3 /\ namespace(<<"b">>)
    \/ last.op = "drop" /\ Registered = 5 /\ \E v \in TestValues : alloc(PathProduct, Ok(v))
    \/ last.op = "alloc" /\ guards = <<>>
          /\ enforce(PathMult, TermOf(Aux(0)), TermOf(Aux(1)), TermOf(Aux(2)))
    \/ last.op = "is_satisfied" /\ Registered = 7
          /\ \E to \in TestValues : set(<<"a", "/">> \o PathVar, to)
    \/ last.op = "set" /\ Registered = 7
          /\ enforce(PathEq, TermOf(Aux(0)), TermOf(CSOne), TermOf(Aux(1)))
    \/ last.op = "is_satisfied" /\ Registered = 8 /\ which_is_unsatisfied_call
    \/ last.op = "which_is_unsatisfied" /\ \E to \in TestValues : set(PathProduct, to)
    \/ last.op = "set" /\ Registered = 8 /\ is_satisfied_call

SpecTest == Init /\ [][NextTest]_vars

\* A test that fingerprints a circuit before and after it assigns values.
NextAssign ==
    \/ Room /\ \E f \in Closures : alloc_input(<<"a">>, f)
    \/ Room /\ \E f \in Closures : alloc(<<"b">>, f)
    \/ Room /\ \E n \in ConstraintNames, t \in Triples : enforce(n, t[1], t[2], t[3])
    \/ \E p \in Paths, to \in Vals : set(p, to)
    \/ hash_call

SpecAssign == Init /\ [][NextAssign]_vars

(***************************************************************************)
(* What the properties are stated with: a constraint's truth by integer    *)
(* arithmetic on the current tables, and the segments of a path.           *)
(***************************************************************************)
Value(v) == IF v.kind = "Input" THEN inputs[v.index + 1][1] ELSE aux[v.index + 1][1]

RECURSIVE TermSum(_, _)
\* The integer sum of coefficient * value over the first n terms.
TermSum(terms, n) ==
    IF n = 0 THEN 0 ELSE TermSum(terms, n - 1) + terms[n][2] * Value(terms[n][1])

LinValue(terms) == TermSum(terms, Len(terms))

\* Constraint i (1-based) satisfies A * B = C in the field.
Holds(i) ==
    (LinValue(constraints[i][1]) * LinValue(constraints[i][2])) % Modulus
        = LinValue(constraints[i][3]) % Modulus

Violated == {i \in 1 .. Len(constraints) : ~Holds(i)}

RECURSIVE SplitLoop(_, _, _, _)
SplitLoop(path, i, segment, done) ==
    IF i > Len(path) THEN Append(done, segment)
    ELSE IF path[i] = "/" THEN SplitLoop(path, i + 1, <<>>, Append(done, segment))
    ELSE SplitLoop(path, i + 1, Append(segment, path[i]), done)

\* The '/'-separated segments of a path.
Split(path) == SplitLoop(path, 1, <<>>, <<>>)

Creators == {"alloc", "alloc_input", "enforce", "push_namespace", "namespace"}

(***************************************************************************)
(* C1: in every reachable state is_satisfied() is true exactly when every  *)
(* recorded constraint has eval(A) * eval(B) = eval(C) under the values    *)
(* the tables hold now, and a call of it returns that.                     *)
(***************************************************************************)
C1_IsSatisfiedIffAllHold ==
    /\ is_satisfied <=> (\A i \in 1 .. Len(constraints) : Holds(i))
    /\ last.op = "is_satisfied" => (last.res <=> Violated = {})

\* set() has overwritten the value of an allocated variable, and the verdict
\* follows the new value: with the old value back the system is satisfied.
C1_Witness ==
    /\ last.op = "set" /\ last.out = "ok"
    /\ last.name # OnePath
    /\ last.res # last.val
    /\ constraints # <<>>
    /\ ~is_satisfied
    /\ LET v == named_objects[last.name].var
           old_inputs == IF v.kind = "Input"
                         THEN [inputs EXCEPT ![v.index + 1][1] = last.res] ELSE inputs
           old_aux == IF v.kind = "Aux"
                      THEN [aux EXCEPT ![v.index + 1][1] = last.res] ELSE aux
       IN UnsatLoop(constraints, 1, old_inputs, old_aux) = None

(***************************************************************************)
(* C2: which_is_unsatisfied() returns the path of the violated constraint  *)
(* with the smallest insertion index, and none when no constraint is       *)
(* violated.                                                               *)
(***************************************************************************)
FirstViolated ==
    IF Violated = {} THEN None
    ELSE Some(constraints[CHOOSE i \in Violated : \A j \in Violated : i <= j][4])

C2_FirstViolatedReported ==
    /\ which_is_unsatisfied = FirstViolated
    /\ last.op = "which_is_unsatisfied" => last.res = FirstViolated

\* Two constraints are violated and the call reported the first.
C2_Witness ==
    /\ last.op = "which_is_unsatisfied"
    /\ Cardinality(Violated) = 2
    /\ last.res = Some(constraints[1][4])
    /\ constraints[1][4] # constraints[2][4]

(***************************************************************************)
(* C3: right after set(path, v) on a path that alloc or alloc_input        *)
(* registered (or new() did), get(path) returns v.                         *)
(***************************************************************************)
C3_GetAfterSet ==
    (last.op = "set" /\ last.out = "ok") =>
        /\ Resolves(last.name)
        /\ get(last.name) = last.val

\* set has changed the value of a variable that alloc registered.
C3_Witness ==
    /\ last.op = "set" /\ last.out = "ok"
    /\ named_objects[last.name].var.kind = "Aux"
    /\ last.res # last.val
    /\ get(last.name) = last.val

(***************************************************************************)
(* C4: Inputs[0] is (field-one, "ONE") in every reachable state, also      *)
(* after set("ONE", value).                                                *)
(***************************************************************************)
C4_OneStaysOne == inputs[1] = <<one, OnePath>>

(***************************************************************************)
(* C5: the path registered for an object that alloc, alloc_input, enforce  *)
(* or push_namespace creates is the segments of the namespace stack        *)
(* followed by the local name, joined by '/'; with an empty stack it is    *)
(* the local name alone.                                                   *)
(***************************************************************************)
\* The object the last call put at path p.
Recorded(p) ==
    CASE last.op = "alloc" ->
           /\ named_objects[p] = NamedVar(Aux(Len(aux) - 1))
           /\ aux[Len(aux)][2] = p
      [] last.op = "alloc_input" ->
           /\ named_objects[p] = NamedVar(Input(Len(inputs) - 1))
           /\ inputs[Len(inputs)][2] = p
      [] last.op = "enforce" ->
           /\ named_objects[p] = NamedConstraint(Len(constraints) - 1)
           /\ constraints[Len(constraints)][4] = p
      [] OTHER -> named_objects[p] = NamedNamespace

C5_PathIsStackThenName ==
    (last.op \in Creators /\ last.out = "ok") =>
        \E p \in DOMAIN named_objects :
            /\ DOMAIN named_objects \ last.keys = {p}
            /\ Split(p) = last.ns \o <<last.name>>
            /\ last.ns = <<>> => p = last.name
            /\ Recorded(p)

\* A variable allocated inside two nested scopes of different names.
C5_Witness ==
    /\ last.op = "alloc" /\ last.out = "ok"
    /\ Len(last.ns) = 2 /\ last.ns[1] # last.ns[2]
    /\ aux[Len(aux)][2] = last.ns[1] \o <<"/">> \o last.ns[2] \o <<"/">> \o last.name

(***************************************************************************)
(* C6: the registry is one flat namespace.  As claimed: every alloc,       *)
(* alloc_input, enforce or push_namespace whose resolved path is already   *)
(* registered hard-faults, whatever is registered there.                   *)
(***************************************************************************)
\* The last call resolved its name to a path the registry already held.
ResolvedExisted ==
    /\ last.op \in Creators
    /\ \E p \in last.keys : Split(p) = last.ns \o <<last.name>>

C6_DuplicateAlwaysFaults == ResolvedExisted => last.out = "panic"

(***************************************************************************)
(* C6, amended: such a call hard-faults, whatever is registered at the     *)
(* path (a variable, a constraint, or the marker of a namespace, also one  *)
(* that has been left), unless it is an alloc or alloc_input whose value   *)
(* closure returns an error: that call returns the error.  Either way the  *)
(* registry keeps its keys and entries.                                    *)
(***************************************************************************)
C6_DuplicateFaultsUnlessClosureFails ==
    ResolvedExisted =>
        /\ IF last.op \in {"alloc", "alloc_input"} /\ last.val.tag = "Err"
           THEN last.out = "err"
           ELSE last.out = "panic" /\ panicked
        /\ DOMAIN named_objects = last.keys

\* A namespace is entered again at the level where it was entered and left
\* before: the marker it left behind makes push_namespace fault.
C6_Witness ==
    /\ last.op = "push_namespace" /\ last.out = "panic"
    /\ last.ns = <<>>
    /\ last.name \in DOMAIN named_objects
    /\ named_objects[last.name] = NamedNamespace

(***************************************************************************)
(* C7: when scopes are entered only through namespace(name), the root's    *)
(* namespace stack is, in every reachable state, the names of the live     *)
(* guards, outermost first; it is empty when no guard is live.             *)
(***************************************************************************)
C7_StackIsLiveGuards ==
    /\ Len(current_namespace) = Len(guards)
    /\ \A i \in 1 .. Len(guards) : current_namespace[i] = guards[i].name

\* The inner of two nested guards has been dropped.
C7_Witness ==
    /\ last.op = "drop" /\ last.out = "ok"
    /\ Len(last.ns) = 2
    /\ Len(guards) = 1
    /\ current_namespace = <<guards[1].name>>

(***************************************************************************)
(* C8: when an alloc or alloc_input made inside a guard returns a          *)
(* synthesis error and the scope is left, the guard pops one segment: the  *)
(* stack is again what it was before the guard was created.                *)
(***************************************************************************)
C8_ErrorExitRestoresStack ==
    (/\ last.op = "drop"
     /\ last.res.after \in {"alloc", "alloc_input"}
     /\ last.res.after_out = "err") =>
        /\ last.out = "ok"
        /\ ~panicked
        /\ Len(current_namespace) + 1 = Len(last.ns)
        /\ current_namespace = last.res.saved

\* The error of an alloc has left the inner of two nested scopes.
C8_Witness ==
    /\ last.op = "drop"
    /\ last.res.after = "alloc" /\ last.res.after_out = "err"
    /\ Len(last.ns) = 2
    /\ current_namespace = last.res.saved

(***************************************************************************)
(* C9, as claimed: push_namespace, pop_namespace and get_root called on a  *)
(* guard are each a hard fault.                                            *)
(***************************************************************************)
GuardCalls == {"guard.push_namespace", "guard.pop_namespace", "guard.get_root"}

C9_GuardCallsAllFault == last.op \in GuardCalls => last.out = "panic"

(***************************************************************************)
(* C9, amended: push_namespace and pop_namespace called on a guard are a   *)
(* hard fault; get_root called on a guard returns the root.                *)
(***************************************************************************)
C9_GuardPushPopFaultGetRootReturns ==
    /\ last.op \in {"guard.push_namespace", "guard.pop_namespace"} =>
          last.out = "panic" /\ panicked
    /\ last.op = "guard.get_root" =>
          last.out = "ok" /\ last.res = "root" /\ ~panicked

\* get_root has been called on the inner of two nested guards.
C9_Witness ==
    /\ last.op = "guard.get_root" /\ last.out = "ok"
    /\ Len(guards) = 2

(***************************************************************************)
(* C10: pop_namespace on the root removes the last segment of the stack,   *)
(* and only it, when the stack is not empty, and is a hard fault when the  *)
(* stack is empty.                                                         *)
(***************************************************************************)
C10_PopRemovesLastOrFaults ==
    last.op = "pop_namespace" =>
        IF last.ns = <<>>
        THEN last.out = "panic" /\ panicked /\ current_namespace = <<>>
        ELSE /\ last.out = "ok" /\ ~panicked
             /\ last.ns = Append(current_namespace, last.ns[Len(last.ns)])

\* A stack of two segments has been popped to its first.
C10_Witness ==
    /\ last.op = "pop_namespace" /\ last.out = "ok"
    /\ Len(last.ns) = 2
    /\ current_namespace = <<last.ns[1]>>

(***************************************************************************)
(* C11: verify(expected) hard-faults exactly when expected.len() + 1       *)
(* differs from the number of inputs; otherwise it returns true exactly    *)
(* when the inputs after the first equal expected position by position;    *)
(* the first input (ONE) is never compared.                                *)
(***************************************************************************)
C11_VerifyComparesInputsAfterOne ==
    last.op = "verify" =>
        /\ (last.out = "panic") <=> (Len(last.val) + 1 # Len(inputs))
        /\ last.out = "ok" =>
               (last.res <=> \A i \in 1 .. Len(last.val) : inputs[i + 1][1] = last.val[i])

\* verify returned true for two expected values while ONE holds a value that
\* is none of them.
C11_Witness ==
    /\ last.op = "verify" /\ last.out = "ok"
    /\ Len(last.val) = 2
    /\ last.res = TRUE
    /\ inputs[1][1] # last.val[1]

(***************************************************************************)
(* C12 as stated: verify never faults, and returns false exactly when the  *)
(* lengths do not match or some positional value differs.                  *)
(***************************************************************************)
C12_VerifyFalseOnLengthMismatch ==
    last.op = "verify" =>
        /\ last.out = "ok"
        /\ (last.res = FALSE) <=>
               \/ Len(last.val) + 1 # Len(inputs)
               \/ \E i \in 1 .. Len(last.val) : inputs[i + 1][1] # last.val[i]

(***************************************************************************)
(* C12: verify hard-faults when expected.len() + 1 differs from the number *)
(* of inputs; when the lengths match it returns false exactly when some    *)
(* positional value differs, and true only on an exact match.              *)
(***************************************************************************)
C12_VerifyFaultsOnLengthMismatch ==
    last.op = "verify" =>
        IF Len(last.val) + 1 # Len(inputs)
        THEN last.out = "panic" /\ panicked
        ELSE /\ last.out = "ok"
             /\ (last.res = FALSE) <=>
                    \E i \in 1 .. Len(last.val) : inputs[i + 1][1] # last.val[i]

\* verify was handed one value while two inputs follow ONE, and faulted.
C12_Witness ==
    /\ last.op = "verify" /\ last.out = "panic"
    /\ Len(last.val) = 1 /\ Len(inputs) = 3

(***************************************************************************)
(* C13: a successful alloc returns Aux(n) with n the length of Aux before  *)
(* the call, a successful alloc_input returns Input(m) with m the length   *)
(* of Inputs before the call, and the new entry goes to the end of its     *)
(* table; no other call adds, removes or moves an entry of either table.   *)
(* So the entries of Inputs after the first are in alloc_input call order, *)
(* the k-th at Input index k, whatever alloc, enforce and namespace calls  *)
(* came in between.                                                        *)
(***************************************************************************)
TablePaths(table) == [i \in 1 .. Len(table) |-> table[i][2]]

C13_IndicesInCallOrder ==
    /\ (last.op = "alloc" /\ last.out = "ok") =>
           /\ last.res = [kind |-> "Aux", index |-> Len(last.pre.aux)]
           /\ aux = Append(last.pre.aux, <<last.val.value, last.path>>)
           /\ inputs = last.pre.inputs
    /\ (last.op = "alloc_input" /\ last.out = "ok") =>
           /\ last.res = [kind |-> "Input", index |-> Len(last.pre.inputs)]
           /\ inputs = Append(last.pre.inputs, <<last.val.value, last.path>>)
           /\ aux = last.pre.aux
    /\ (last.op \notin {"new", "alloc", "alloc_input"} \/ last.out = "err") =>
           /\ TablePaths(inputs) = TablePaths(last.pre.inputs)
           /\ TablePaths(aux) = TablePaths(last.pre.aux)
    /\ ~panicked =>
           \A k \in 1 .. Len(inputs) - 1 :
               /\ inputs[k + 1][2] \in DOMAIN named_objects
               /\ named_objects[inputs[k + 1][2]] = [tag |-> "Var",
                                                    var |-> [kind |-> "Input", index |-> k]]

\* The first alloc_input got Input(1) after an alloc and a push_namespace.
C13_Witness ==
    /\ last.op = "alloc_input" /\ last.out = "ok"
    /\ last.res = [kind |-> "Input", index |-> 1]
    /\ Len(aux) = 1
    /\ current_namespace # <<>>

(***************************************************************************)
(* Combinations: the field sum of a variable's coefficients, and the ways  *)
(* to write the same combination differently.                              *)
(***************************************************************************)
RECURSIVE CoeffSum(_, _, _)
CoeffSum(terms, v, n) ==
    IF n = 0
    THEN 0
    ELSE (CoeffSum(terms, v, n - 1) + (IF terms[n][1] = v THEN terms[n][2] ELSE 0)) % Modulus

FieldSum(terms, v) == CoeffSum(terms, v, Len(terms))

Reordered(terms, perm) == [i \in 1 .. Len(terms) |-> terms[perm[i]]]

\* Term i gives the part c of its coefficient to a new term of the same
\* variable, which goes to position j.
Resplit(terms, i, c, j) ==
    LET rest == [terms EXCEPT ![i] = <<terms[i][1], (terms[i][2] + Modulus - c) % Modulus>>]
    IN SubSeq(rest, 1, j - 1) \o << <<terms[i][1], c>> >> \o SubSeq(rest, j, Len(rest))

(***************************************************************************)
(* C14: proc_lc does not depend on the order of the terms nor on how a     *)
(* variable's coefficient is split over duplicate terms: every permutation *)
(* of the terms, and every re-splitting of a term into two terms of the    *)
(* same variable with the same field sum, has the same canonical form.     *)
(***************************************************************************)
C14_ProcLcOrderInsensitive ==
    last.op = "proc_lc" =>
        /\ \A perm \in Permutations(1 .. Len(last.val)) :
               proc_lc(Reordered(last.val, perm)) = last.res
        /\ \A i \in 1 .. Len(last.val), c \in Coeffs, j \in 1 .. Len(last.val) + 1 :
               proc_lc(Resplit(last.val, i, c, j)) = last.res

\* Three terms over two variables, one of them twice, out of key order.
C14_Witness ==
    /\ last.op = "proc_lc"
    /\ Len(last.val) = 3
    /\ last.val[1][1] = Aux(0) /\ last.val[2][1] = Input(1) /\ last.val[3][1] = Aux(0)
    /\ Len(last.res) = 2

(***************************************************************************)
(* C15: proc_lc is idempotent: the canonical form of a canonical form,     *)
(* read as a combination, is that canonical form.                          *)
(***************************************************************************)
C15_ProcLcIdempotent == last.op = "proc_lc" => proc_lc(last.res) = last.res

\* A combination with a duplicate that is not its own canonical form.
C15_Witness ==
    /\ last.op = "proc_lc"
    /\ last.res # last.val
    /\ Len(last.res) = 2
    /\ \E i, j \in 1 .. Len(last.val) : i # j /\ last.val[i][1] = last.val[j][1]

(***************************************************************************)
(* C16: in the canonical form every variable appears at most once, with    *)
(* the field sum of all its coefficients in the combination; a variable    *)
(* whose sum is zero is absent, and no entry has coefficient zero.         *)
(***************************************************************************)
C16_CanonicalForm ==
    last.op = "proc_lc" =>
        /\ \A i, j \in 1 .. Len(last.res) : last.res[i][1] = last.res[j][1] => i = j
        /\ \A i \in 1 .. Len(last.res) :
               /\ last.res[i][2] = FieldSum(last.val, last.res[i][1])
               /\ last.res[i][2] # 0
        /\ \A n \in 1 .. Len(last.val) :
               (FieldSum(last.val, last.val[n][1]) # 0) <=>
                   (\E i \in 1 .. Len(last.res) : last.res[i][1] = last.val[n][1])

\* One variable's terms cancel and another's add up.
C16_Witness ==
    /\ last.op = "proc_lc"
    /\ Len(last.val) = 3
    /\ \E n \in 1 .. 3 : last.val[n][2] # 0 /\ FieldSum(last.val, last.val[n][1]) = 0
    /\ Len(last.res) = 1

(***************************************************************************)
(* C17: eval_lc of the raw combination is the sum, over the entries of its *)
(* canonical form, of coefficient times the variable's assignment.         *)
(***************************************************************************)
RECURSIVE EntrySum(_, _)
EntrySum(map, n) ==
    IF n = 0 THEN 0 ELSE (EntrySum(map, n - 1) + map[n][2] * Value(map[n][1])) % Modulus

C17_EvalIsCanonicalSum ==
    last.op = "eval_lc" =>
        last.res = EntrySum(proc_lc(last.val), Len(proc_lc(last.val)))

\* A combination with a duplicate term that evaluates to a nonzero value.
C17_Witness ==
    /\ last.op = "eval_lc"
    /\ Len(last.val) = 3 /\ Len(proc_lc(last.val)) = 2
    /\ last.res # 0
    /\ \E i \in 1 .. 3 : last.val[i][1] # CSOne /\ Value(last.val[i][1]) # 0

(***************************************************************************)
(* C18: the fingerprint does not depend on names: the same tables and      *)
(* constraints under other annotation and namespace names (every path      *)
(* given a prefix, or replaced by one name) have the same fingerprint.     *)
(***************************************************************************)
Prefixes == { <<"x">>, <<"n", "s", "/">> }

RenamedTable(table, prefix) ==
    [i \in 1 .. Len(table) |-> <<table[i][1], prefix \o table[i][2]>>]

RenamedConstraints(cons, prefix) ==
    [i \in 1 .. Len(cons) |-> <<cons[i][1], cons[i][2], cons[i][3], prefix \o cons[i][4]>>]

C18_HashIgnoresNames ==
    last.op = "hash" =>
        \A prefix \in Prefixes :
            HashOf(RenamedTable(inputs, prefix), RenamedTable(aux, prefix),
                   RenamedConstraints(constraints, prefix)) = last.res

\* The fingerprint of a system with an input, an auxiliary variable and a
\* constraint, each under its own name.
C18_Witness ==
    /\ last.op = "hash"
    /\ Len(inputs) = 2 /\ Len(aux) = 1 /\ Len(constraints) = 1
    /\ constraints[1][4] = <<"c", "c">>

(***************************************************************************)
(* C19: the fingerprint is the same when the terms of any one combination  *)
(* of any one constraint are reordered, or one of its terms is re-split    *)
(* into two terms of the same variable with the same field sum.            *)
(***************************************************************************)
WithCombination(k, slot, terms) == [constraints EXCEPT ![k][slot] = terms]

C19_HashIgnoresTermOrder ==
    last.op = "hash" =>
        \A k \in 1 .. Len(constraints), slot \in 1 .. 3 :
            LET terms == constraints[k][slot]
            IN /\ \A perm \in Permutations(1 .. Len(terms)) :
                      HashOf(inputs, aux, WithCombination(k, slot, Reordered(terms, perm)))
                          = last.res
               /\ \A i \in 1 .. Len(terms), c \in Coeffs, j \in 1 .. Len(terms) + 1 :
                      HashOf(inputs, aux, WithCombination(k, slot, Resplit(terms, i, c, j)))
                          = last.res

\* The fingerprint of two constraints, the second with a combination of
\* three terms, two of them of the same variable.
C19_Witness ==
    /\ last.op = "hash"
    /\ Len(constraints) = 2
    /\ Len(constraints[2][1]) = 3
    /\ constraints[2][1][1][1] = constraints[2][1][3][1]

(***************************************************************************)
(* Changes to the recorded constraints: one term's coefficient, one term's *)
(* variable, one constraint more or less, two constraints exchanged.       *)
(***************************************************************************)
WithCoefficient(k, slot, i, c) ==
    WithCombination(k, slot, [constraints[k][slot] EXCEPT ![i] = <<@[1], c>>])

WithVariable(k, slot, i, v) ==
    WithCombination(k, slot, [constraints[k][slot] EXCEPT ![i] = <<v, @[2]>>])

Without(k) == SubSeq(constraints, 1, k - 1) \o SubSeq(constraints, k + 1, Len(constraints))

Exchanged(i, j) == [constraints EXCEPT ![i] = constraints[j], ![j] = constraints[i]]

OtherVariables == Variables \cup {Input(Len(inputs)), Aux(Len(aux))}

CanonicalTriple(k) ==
    <<proc_lc(constraints[k][1]), proc_lc(constraints[k][2]), proc_lc(constraints[k][3])>>

CoefficientChangeShows ==
    \A k \in 1 .. Len(constraints), slot \in 1 .. 3 :
        \A i \in 1 .. Len(constraints[k][slot]) :
            \A c \in Fr \ {constraints[k][slot][i][2]} :
                HashOf(inputs, aux, WithCoefficient(k, slot, i, c)) # last.res

CountChangeShows ==
    /\ \A k \in 1 .. Len(constraints) : HashOf(inputs, aux, Without(k)) # last.res
    /\ \A k \in 1 .. Len(constraints) :
           HashOf(inputs, aux, Append(constraints, constraints[k])) # last.res
    /\ HashOf(inputs, aux, Append(constraints, <<<<>>, <<>>, <<>>, <<"x">>>>)) # last.res

(***************************************************************************)
(* C20 as stated: the bytes fed to the digest change under any change of a *)
(* term's coefficient, any change of a term's variable, any change of the  *)
(* number of constraints and any change of the order of constraints.       *)
(***************************************************************************)
C20_HashShowsEveryChange ==
    last.op = "hash" =>
        /\ CoefficientChangeShows
        /\ \A k \in 1 .. Len(constraints), slot \in 1 .. 3 :
               \A i \in 1 .. Len(constraints[k][slot]) :
                   \A v \in OtherVariables \ {constraints[k][slot][i][1]} :
                       HashOf(inputs, aux, WithVariable(k, slot, i, v)) # last.res
        /\ CountChangeShows
        /\ \A i, j \in 1 .. Len(constraints) :
               i < j => HashOf(inputs, aux, Exchanged(i, j)) # last.res

(***************************************************************************)
(* C20: the bytes fed to the digest change under any change of a term's    *)
(* coefficient to another field element, any change of the variable of a   *)
(* term whose coefficient is not zero, any change of the number of         *)
(* constraints, and any exchange of two constraints whose canonical forms  *)
(* differ.  They stay the same when the variable of a term with            *)
(* coefficient zero is changed and when two constraints with the same      *)
(* canonical forms are exchanged.                                          *)
(***************************************************************************)
C20_HashShowsCanonicalChanges ==
    last.op = "hash" =>
        /\ CoefficientChangeShows
        /\ \A k \in 1 .. Len(constraints), slot \in 1 .. 3 :
               \A i \in 1 .. Len(constraints[k][slot]) :
                   \A v \in OtherVariables \ {constraints[k][slot][i][1]} :
                       (HashOf(inputs, aux, WithVariable(k, slot, i, v)) # last.res)
                           <=> (constraints[k][slot][i][2] # zero)
        /\ CountChangeShows
        /\ \A i, j \in 1 .. Len(constraints) :
               i < j => ((HashOf(inputs, aux, Exchanged(i, j)) # last.res)
                             <=> (CanonicalTriple(i) # CanonicalTriple(j)))

\* The fingerprint of two constraints that differ only in how their terms
\* are written, one of them with a term whose coefficient is zero.
C20_Witness ==
    /\ last.op = "hash"
    /\ Len(constraints) = 2
    /\ constraints[1] # constraints[2]
    /\ constraints[1][1] # constraints[2][1]
    /\ CanonicalTriple(1) = CanonicalTriple(2)
    /\ \E k \in 1 .. 2 : \E i \in 1 .. Len(constraints[k][1]) : constraints[k][1][i][2] = zero

(***************************************************************************)
(* C21: no operation makes the Inputs table, the Aux table, the constraint *)
(* list or the registry lose an entry: each step leaves every existing     *)
(* slot at its index with its path, every recorded constraint at its       *)
(* position with its triple and path, and every registry key with its      *)
(* entry; a slot's value changes only in a step of set.                    *)
(***************************************************************************)
KeepsSlots(old, new) ==
    /\ Len(new) >= Len(old)
    /\ \A i \in 1 .. Len(old) : new[i][2] = old[i][2]

KeepsValues(old, new) == \A i \in 1 .. Len(old) : new[i][1] = old[i][1]

C21_Step ==
    /\ KeepsSlots(inputs, inputs')
    /\ KeepsSlots(aux, aux')
    /\ Len(constraints') >= Len(constraints)
    /\ SubSeq(constraints', 1, Len(constraints)) = constraints
    /\ \A k \in DOMAIN named_objects :
           k \in DOMAIN named_objects' /\ named_objects'[k] = named_objects[k]
    /\ last'.op # "set" => KeepsValues(inputs, inputs') /\ KeepsValues(aux, aux')

C21_CollectionsOnlyGrow == [][C21_Step]_vars

\* After an alloc and an enforce inside a namespace, set has overwritten a
\* value and everything else is where it was.
C21_Witness ==
    /\ last.op = "set" /\ last.out = "ok"
    /\ Len(aux) = 1 /\ Len(constraints) = 1 /\ current_namespace # <<>>
    /\ <<inputs, aux>> # <<last.pre.inputs, last.pre.aux>>

(***************************************************************************)
(* C22: get(path) and set(path, value) hard-fault exactly when the path is *)
(* not in the registry or names a constraint or a namespace marker; a      *)
(* faulting set changes no value.                                          *)
(***************************************************************************)
NamesVariable(registry, path) ==
    /\ path \in DOMAIN registry
    /\ registry[path].tag \notin {"Constraint", "Namespace"}

C22_GetSetFaultOffVariables ==
    last.op \in {"get", "set"} =>
        /\ (last.out = "panic") <=> ~NamesVariable(last.pre.named_objects, last.path)
        /\ last.out = "panic" => inputs = last.pre.inputs /\ aux = last.pre.aux

\* set on the path of a namespace marker whose scope has been left: a fault,
\* and the allocated value is what it was.
C22_Witness ==
    /\ last.op = "set" /\ last.out = "panic"
    /\ last.path \in DOMAIN named_objects
    /\ named_objects[last.path].tag = "Namespace"
    /\ Len(aux) = 1

\* get on the path of a constraint: a fault.
C22_WitnessConstraint ==
    /\ last.op = "get" /\ last.out = "panic"
    /\ last.path \in DOMAIN named_objects
    /\ named_objects[last.path].tag = "Constraint"

(***************************************************************************)
(* C23: alloc, alloc_input, enforce and push_namespace hard-fault on a     *)
(* local name that contains '/', before any table, the registry or the     *)
(* namespace stack is changed; so no segment of the namespace stack and no *)
(* local name that was registered contains '/'.                            *)
(***************************************************************************)
SlashFree(name) == \A i \in 1 .. Len(name) : name[i] # "/"

NameTakers == {"alloc", "alloc_input", "enforce", "push_namespace"}

C23_SlashFaultsBeforeAnyChange ==
    /\ (last.op \in NameTakers /\ ~SlashFree(last.name)) =>
           /\ last.out = "panic"
           /\ inputs = last.pre.inputs /\ aux = last.pre.aux
           /\ constraints = last.pre.constraints
           /\ named_objects = last.pre.named_objects
           /\ current_namespace = last.ns
    /\ (last.op \in NameTakers /\ last.out = "ok") =>
           /\ SlashFree(last.name)
           /\ Split(last.path) = last.ns \o <<last.name>>
    /\ \A i \in 1 .. Len(current_namespace) : SlashFree(current_namespace[i])

\* push_namespace("a/b") inside a namespace, with a variable allocated:
\* a fault, nothing changed.
C23_Witness ==
    /\ last.op = "push_namespace" /\ last.out = "panic"
    /\ ~SlashFree(last.name)
    /\ current_namespace # <<>>
    /\ Len(inputs) + Len(aux) = 2

(***************************************************************************)
(* C24: the trace of test_cs.  A new system is satisfied and has no        *)
(* constraint.  With a = 10 at "a/var", b = 4 at "b/var", c = 40 at        *)
(* "product" and a * b = c recorded as "mult", the system is satisfied and *)
(* has one constraint.  After set("a/var", 4) and a * ONE = b recorded as  *)
(* "eq" it is not satisfied and the constraint reported is "mult".  After  *)
(* set("product", 16) it is satisfied.                                     *)
(***************************************************************************)
TestAssigned(a, b, c) ==
    /\ Len(aux) = 3
    /\ aux[1] = <<a % Modulus, <<"a", "/", "v", "a", "r">>>>
    /\ aux[2] = <<b % Modulus, <<"b", "/", "v", "a", "r">>>>
    /\ aux[3] = <<c % Modulus, <<"p", "r", "o", "d", "u", "c", "t">>>>

TestRecorded(names) ==
    /\ Len(constraints) = Len(names)
    /\ \A i \in 1 .. Len(names) : constraints[i][4] = names[i]

C24_TestCsTrace ==
    /\ (last.op = "is_satisfied" /\ Cardinality(DOMAIN named_objects) = 1) =>
           last.res = TRUE /\ num_constraints = 0
    /\ (last.op = "is_satisfied" /\ TestAssigned(10, 4, 40) /\ TestRecorded(<<PathMult>>)) =>
           last.res = TRUE /\ num_constraints = 1
    /\ (last.op = "is_satisfied" /\ TestAssigned(4, 4, 40) /\ TestRecorded(<<PathMult, PathEq>>)) =>
           last.res = FALSE
    /\ (last.op = "which_is_unsatisfied" /\ TestAssigned(4, 4, 40)) =>
           last.res = <<PathMult>>
    /\ (last.op = "is_satisfied" /\ TestAssigned(4, 4, 16) /\ TestRecorded(<<PathMult, PathEq>>)) =>
           last.res = TRUE

\* The end of the trace: both constraints recorded, a = 4, b = 4, product = 16,
\* just assigned, and is_satisfied has answered true.
C24_Witness ==
    /\ last.op = "is_satisfied" /\ last.res = TRUE
    /\ TestAssigned(4, 4, 16)
    /\ TestRecorded(<<PathMult, PathEq>>)
    /\ last.pre.aux = aux

\* The middle of the trace: a * b = c holds with 10, 4, 40.
C24_WitnessMult ==
    /\ last.op = "is_satisfied" /\ last.res = TRUE
    /\ TestAssigned(10, 4, 40)
    /\ TestRecorded(<<PathMult>>)

\* After set("a/var", 4) and "eq": "mult" is reported.
C24_WitnessUnsatisfied ==
    /\ last.op = "which_is_unsatisfied" /\ last.res = <<PathMult>>
    /\ TestAssigned(4, 4, 40)

(***************************************************************************)
(* C25: the stream fed to the digest is the three counts (inputs, ONE      *)
(* included; aux; constraints), then for each constraint in insertion      *)
(* order, for A, B, C in turn, the number of entries of the canonical form *)
(* followed by one (tag, index, coefficient) record per entry, the entries *)
(* of Input variables first, then those of Aux variables, each kind by     *)
(* ascending index, with tag 'I' for Input and 'A' for Aux.                *)
(***************************************************************************)
\* A count or an index below 256 as 8 bytes, a coefficient below 256 as 32
\* bytes, most significant byte first.
Count8(n) == <<0, 0, 0, 0, 0, 0, 0, n>>

Coefficient32(c) == [i \in 1 .. 32 |-> IF i = 32 THEN c ELSE 0]

\* All variables of the system: inputs by index, then aux by index.
InCanonicalOrder ==
    [i \in 1 .. Len(inputs) + Len(aux) |->
        IF i <= Len(inputs)
        THEN [kind |-> "Input", index |-> i - 1]
        ELSE [kind |-> "Aux", index |-> i - Len(inputs) - 1]]

RECURSIVE RecordsFrom(_, _)
RecordsFrom(terms, i) ==
    IF i > Len(InCanonicalOrder)
    THEN <<>>
    ELSE LET v == InCanonicalOrder[i]
         IN (IF FieldSum(terms, v) = 0
             THEN <<>>
             ELSE <<IF v.kind = "Input" THEN 73 ELSE 65>> \o Count8(v.index)
                      \o Coefficient32(FieldSum(terms, v)))
                \o RecordsFrom(terms, i + 1)

EntryCount(terms) ==
    Cardinality({i \in 1 .. Len(InCanonicalOrder) : FieldSum(terms, InCanonicalOrder[i]) # 0})

CombinationLayout(terms) == Count8(EntryCount(terms)) \o RecordsFrom(terms, 1)

RECURSIVE ConstraintsLayout(_)
ConstraintsLayout(n) ==
    IF n = 0
    THEN <<>>
    ELSE ConstraintsLayout(n - 1)
            \o CombinationLayout(constraints[n][1])
            \o CombinationLayout(constraints[n][2])
            \o CombinationLayout(constraints[n][3])

C25_StreamLayout ==
    last.op = "hash" =>
        last.res = Count8(Len(inputs)) \o Count8(Len(aux)) \o Count8(Len(constraints))
                       \o ConstraintsLayout(Len(constraints))

\* The fingerprint of a system whose constraint has a combination written
\* with the Aux term before the Input term.
C25_Witness ==
    /\ last.op = "hash"
    /\ Len(constraints) = 1
    /\ Len(constraints[1][1]) = 2
    /\ constraints[1][1][1][1].kind = "Aux" /\ constraints[1][1][1][2] # 0
    /\ constraints[1][1][2][1].kind = "Input" /\ constraints[1][1][2][2] # 0

(***************************************************************************)
(* C26: an alloc or alloc_input whose value closure returns a synthesis    *)
(* error returns that error and leaves the tables, the registry, the       *)
(* constraint list and the namespace stack as they were; the same call     *)
(* with a closure that returns a value, made next, succeeds (when the path *)
(* is not registered).                                                     *)
(***************************************************************************)
ClosureFailed ==
    /\ last.op \in {"alloc", "alloc_input"}
    /\ SlashFree(last.name)
    /\ last.val.tag = "Err"

C26_ErrorReturned ==
    ClosureFailed =>
        /\ last.out = "err" /\ ~panicked
        /\ inputs = last.pre.inputs /\ aux = last.pre.aux
        /\ constraints = last.pre.constraints
        /\ named_objects = last.pre.named_objects
        /\ current_namespace = last.ns

C26_RetrySucceeds ==
    (/\ ClosureFailed
     /\ last.path \notin DOMAIN named_objects
     /\ last'.op = last.op /\ last'.name = last.name /\ last'.val.tag = "Ok")
        => last'.out = "ok" /\ last'.path = last.path

C26_ClosureErrorChangesNothing == [][C26_ErrorReturned' /\ C26_RetrySucceeds]_vars

\* Inside a namespace, after an alloc_input, an alloc with a failing closure.
C26_Witness ==
    /\ last.op = "alloc" /\ last.out = "err"
    /\ guards # <<>> /\ current_namespace # <<>>
    /\ Len(inputs) = 2
    /\ last.path \notin DOMAIN named_objects

(***************************************************************************)
(* C27 as stated: an alloc or alloc_input that hard-faults because its     *)
(* resolved path is already registered leaves the Aux table, the Inputs    *)
(* table and the registry as they were before the call.                    *)
(***************************************************************************)
C27_DuplicateAllocChangesNothing ==
    (/\ last.op \in {"alloc", "alloc_input"}
     /\ last.out = "panic"
     /\ last.path \in DOMAIN last.pre.named_objects)
        => /\ aux = last.pre.aux
           /\ inputs = last.pre.inputs
           /\ named_objects = last.pre.named_objects

(***************************************************************************)
(* C28: in every state reached by operations none of which faulted, the    *)
(* registry and the tables agree: a Variable entry (kind, i) has i below   *)
(* the length of the table of that kind and slot i carries the entry's     *)
(* key; a Constraint(i) entry has i below the constraint count and         *)
(* constraint i carries the key; the path of every slot and of every       *)
(* constraint is a key whose entry names it.  So every variable of every   *)
(* recorded combination is in range of its table.                          *)
(***************************************************************************)
TableOf(kind) == IF kind = "Input" THEN inputs ELSE aux

EntryAgrees(key) ==
    LET e == named_objects[key]
    IN CASE e.tag = "Var" ->
              /\ e.var.index < Len(TableOf(e.var.kind))
              /\ TableOf(e.var.kind)[e.var.index + 1][2] = key
         [] e.tag = "Constraint" ->
              /\ e.index < Len(constraints)
              /\ constraints[e.index + 1][4] = key
         [] OTHER -> e.tag = "Namespace"

SlotAgrees(kind, i) ==
    LET key == TableOf(kind)[i][2]
    IN /\ key \in DOMAIN named_objects
       /\ named_objects[key] = [tag |-> "Var", var |-> [kind |-> kind, index |-> i - 1]]

ConstraintAgrees(i) ==
    LET key == constraints[i][4]
    IN /\ key \in DOMAIN named_objects
       /\ named_objects[key] = [tag |-> "Constraint", index |-> i - 1]

InRange(terms) ==
    \A n \in 1 .. Len(terms) : terms[n][1].index < Len(TableOf(terms[n][1].kind))

C28_RegistryAndTablesAgree ==
    ~panicked =>
        /\ \A key \in DOMAIN named_objects : EntryAgrees(key)
        /\ \A i \in 1 .. Len(inputs) : SlotAgrees("Input", i)
        /\ \A i \in 1 .. Len(aux) : SlotAgrees("Aux", i)
        /\ \A i \in 1 .. Len(constraints) :
               /\ ConstraintAgrees(i)
               /\ InRange(constraints[i][1]) /\ InRange(constraints[i][2])
               /\ InRange(constraints[i][3])

\* A system with an aux variable and a constraint inside a namespace that
\* has been left.
C28_Witness ==
    /\ ~panicked /\ guards = <<>>
    /\ Len(aux) = 1 /\ Len(constraints) = 1
    /\ \E key \in DOMAIN named_objects : named_objects[key].tag = "Namespace"

(***************************************************************************)
(* C29: a successful set(path, v) changes only the value of the one slot   *)
(* the path resolves to: the other slots' values, every slot's path, both  *)
(* table lengths, the constraint list, the registry and the namespace      *)
(* stack are as before.                                                    *)
(***************************************************************************)
OnlySlotWritten(old, new, index, to) ==
    /\ Len(new) = Len(old)
    /\ \A i \in 1 .. Len(old) :
           new[i] = IF i = index + 1 THEN <<to, old[i][2]>> ELSE old[i]

C29_SetWritesOneSlot ==
    (last.op = "set" /\ last.out = "ok") =>
        LET v == last.pre.named_objects[last.path].var
        IN /\ IF v.kind = "Input"
              THEN /\ OnlySlotWritten(last.pre.inputs, inputs, v.index, last.val)
                   /\ aux = last.pre.aux
              ELSE /\ OnlySlotWritten(last.pre.aux, aux, v.index, last.val)
                   /\ inputs = last.pre.inputs
           /\ constraints = last.pre.constraints
           /\ named_objects = last.pre.named_objects
           /\ current_namespace = last.ns

\* Inside a namespace, with two inputs after ONE, set has given the first of
\* them a new value.
C29_Witness ==
    /\ last.op = "set" /\ last.out = "ok"
    /\ current_namespace # <<>>
    /\ Len(inputs) = 3
    /\ inputs[2] # last.pre.inputs[2]

(***************************************************************************)
(* C30: the fingerprint does not depend on the assigned values: hash() is  *)
(* the same before and after a set(path, v), and the same as that of the   *)
(* system with other values in its slots, as other value closures would    *)
(* have given them.                                                        *)
(***************************************************************************)
WithValue(table, i, v) == [table EXCEPT ![i] = <<v, table[i][2]>>]

WithValues(table, v) == [i \in 1 .. Len(table) |-> <<v, table[i][2]>>]

C30_HashIgnoresValues ==
    /\ (last.op = "set" /\ last.out = "ok") =>
           hash = HashOf(last.pre.inputs, last.pre.aux, last.pre.constraints)
    /\ last.op = "hash" =>
           /\ \A v \in Fr :
                  HashOf(WithValues(inputs, v), WithValues(aux, v), constraints) = last.res
           /\ \A v \in Fr, i \in 2 .. Len(inputs) :
                  HashOf(WithValue(inputs, i, v), aux, constraints) = last.res
           /\ \A v \in Fr, i \in 1 .. Len(aux) :
                  HashOf(inputs, WithValue(aux, i, v), constraints) = last.res

\* The fingerprint of a system with a constraint over its aux variable,
\* taken after set gave the input a value other than the closure's.
C30_Witness ==
    /\ last.op = "hash"
    /\ Len(inputs) = 2 /\ Len(aux) = 1 /\ Len(constraints) = 1
    /\ inputs[2][1] # aux[1][1]

\* set has changed the value of the variable of a recorded constraint.
C30_WitnessSet ==
    /\ last.op = "set" /\ last.out = "ok"
    /\ Len(constraints) = 1
    /\ aux # last.pre.aux
====
